---- MODULE Spec2Model ----
(***************************************************************************)
(* Model of k8s-access-monitor: the access monitor (src/src/main.py), the  *)
(* metrics exporter (src/src/metrics_exporter.py) and the log shipping     *)
(* sidecar (src/src/sidecar.py).                                           *)
(*                                                                         *)
(* Python values are modelled as follows.                                  *)
(*   list            a sequence                                            *)
(*   dict            a sequence of entries with unique keys, in insertion  *)
(*                   order (Python dicts keep insertion order)             *)
(*   optional field  [some |-> BOOLEAN, val |-> ...]; the kubernetes       *)
(*                   client's to_dict() emits every attribute of an API    *)
(*                   object, an unset one with the value None              *)
(***************************************************************************)
EXTENDS Integers, Sequences, FiniteSets, TLC

VARIABLES
    call, ret,          \* a direct call of one of the pure functions
    \* the environment
    input_file,         \* the roster document at INPUT_FILE
    kube_config,        \* whether a Kubernetes configuration can be loaded
    cluster,            \* the RBAC objects the cluster API serves now
    \* the access monitor (main.py)
    pc,                 \* where the monitor process is
    users_data,         \* self.users_data
    es_client,          \* self.es_client is set
    idx,                \* position of the loop over self.users_data
    cluster_bindings, role_bindings, cluster_roles, roles,
                        \* the locals of _get_user_accesses
    stdout,             \* the lines printed
    output_file,        \* the lines of self.output_file
    elasticsearch,      \* the documents indexed by the monitor
    \* history of the run
    api_calls,          \* list calls made, by kind
    list_failed,        \* the kinds whose list call failed for this user
    trace,              \* for each printed entry, what it was resolved from
    io_failed,          \* <<position of the user, "file" or "es">> that failed
    faults,             \* failures injected so far
    \* the metrics exporter (metrics_exporter.py)
    epc,                \* where the exporter process is
    exp_users_data,     \* self.users_data of the exporter
    exp_cluster_bindings, exp_role_bindings,
                        \* what the last _get_all_bindings returned
    exp_cluster_roles, exp_roles,
                        \* what the last _get_roles returned
    exp_raised,         \* the list call that raised in the last of these
    namespace_metrics,  \* result of calculate_namespace_sensitive_metrics
    response,           \* the last HTTP response
    scrapes,            \* requests served so far
    \* the log shipping sidecar (sidecar.py)
    log_file,           \* self.log_file: whether it exists, and its lines
    processed_file,     \* the lines of self.processed_file
    indexed,            \* the documents indexed by the sidecar
    spc,                \* where the sidecar process is
    sc_es_client,       \* self.es_client of the sidecar is set
    processed_lines, new_entries,
                        \* the locals of process_logs
    entry_idx,          \* position of the loop over new_entries
    \* history of the sidecar
    last_send,          \* how the last _process_log_entry ended
    sent,               \* the line numbers of the acknowledged sends, in order
    marks,              \* for each marker written, how the send before it ended
    passes, kills, sc_faults
                        \* calls of process_logs, kills and failures so far

pureVars == <<call, ret>>
envVars == <<input_file, kube_config, cluster>>
localVars == <<cluster_bindings, role_bindings, cluster_roles, roles>>
outVars == <<stdout, output_file, elasticsearch>>
histVars == <<api_calls, list_failed, trace, io_failed, faults>>
monitorVars == <<pc, users_data, es_client, idx, localVars, outVars, histVars>>

exporterVars == <<epc, exp_users_data, exp_cluster_bindings, exp_role_bindings,
                  exp_cluster_roles, exp_roles, exp_raised, namespace_metrics,
                  response, scrapes>>

sidecarVars == <<log_file, processed_file, indexed, spc, sc_es_client,
                 processed_lines, new_entries, entry_idx, last_send, sent,
                 marks, passes, kills, sc_faults>>

vars == <<pureVars, envVars, monitorVars, exporterVars, sidecarVars>>

(***************************************************************************)
(* Bounds of the model.                                                    *)
(***************************************************************************)
MaxSubjects == 2
MaxRules == 2        \* rules of a role
MaxResources == 2    \* resource names in the rules of a role, in all
MaxVerbs == 3        \* verbs in the rules of a role, in all
MaxClusterBindings == 1
MaxRoleBindings == 1
MaxFaults == 2
MaxScrapes == 1
MaxBindings == 2     \* bindings of each kind in a snapshot
MaxLines == 2        \* lines of the log file
MaxPasses == 2       \* calls of process_logs
MaxKills == 1        \* kills of the sidecar
MaxShipFaults == 1   \* failed sends and failed file operations of the sidecar

(***************************************************************************)
(* Python helpers.                                                         *)
(***************************************************************************)
None == [some |-> FALSE, val |-> <<>>]
Some(x) == [some |-> TRUE, val |-> x]

\* bool(x) of an optional list: None and [] are both falsy
Truthy(opt) == opt.some /\ opt.val # <<>>

\* x or []
OrEmpty(opt) == IF Truthy(opt) THEN opt.val ELSE <<>>

\* x in lst
InList(x, lst) == \E i \in 1..Len(lst) : lst[i] = x

SeqUpTo(S, n) == UNION {[1..k -> S] : k \in 0..n}

OptSeqUpTo(S, n) == {None} \cup {Some(s) : s \in SeqUpTo(S, n)}

(***************************************************************************)
(* The roster: users_data, a dict username -> user record.                 *)
(***************************************************************************)
\* self.users_data.get(username, {}).get('groups', [])
UserGroups(ud, username) ==
    IF \E i \in 1..Len(ud) : ud[i].username = username
    THEN ud[CHOOSE i \in 1..Len(ud) :
                        ud[i].username = username].groups
    ELSE <<>>

(***************************************************************************)
(* Subject Matcher.                                                        *)
(***************************************************************************)
\* Mutant of MainSubjectLoop: the subject's kind is not looked at when its name
\* is the username.
RECURSIVE MainSubjectLoop_AnyKind(_, _, _, _)
MainSubjectLoop_AnyKind(ud, username, subjects, i) ==
    IF i > Len(subjects) THEN FALSE
    ELSE LET subject_kind == subjects[i].kind
             subject_name == subjects[i].name
         IN  IF subject_name = username THEN TRUE
             ELSE IF subject_kind = "Group"
                     /\ InList(subject_name, UserGroups(ud, username))
                  THEN TRUE
                  ELSE MainSubjectLoop_AnyKind(ud, username, subjects,
                                               i + 1)

RECURSIVE MainSubjectLoop(_, _, _, _)
MainSubjectLoop(ud, username, subjects, i) ==
    IF i > Len(subjects) THEN FALSE
    ELSE LET subject_kind == subjects[i].kind
             subject_name == subjects[i].name
         IN  IF subject_kind = "User" /\ subject_name = username THEN TRUE
             ELSE IF subject_kind = "Group"
                     /\ InList(subject_name, UserGroups(ud, username))
                  THEN TRUE
                  ELSE MainSubjectLoop(ud, username, subjects, i + 1)

\* KubernetesAccessMonitor._user_matches_subjects
MainUserMatchesSubjects(ud, username, subjects) ==
    IF ~Truthy(subjects) THEN FALSE
    ELSE MainSubjectLoop(ud, username, subjects.val, 1)

RECURSIVE ExpSubjectLoop(_, _, _, _)
ExpSubjectLoop(ud, username, subjects, i) ==
    IF i > Len(subjects) THEN FALSE
    ELSE LET subject == subjects[i]
         IN  IF subject.kind = "User" /\ subject.name = username THEN TRUE
             ELSE IF subject.kind = "Group"
                     /\ InList(subject.name, UserGroups(ud, username))
                  THEN TRUE
                  ELSE ExpSubjectLoop(ud, username, subjects, i + 1)

\* MetricsExporter._user_matches_subjects
ExpUserMatchesSubjects(ud, username, subjects) ==
    IF ~Truthy(subjects) THEN FALSE
    ELSE ExpSubjectLoop(ud, username, subjects.val, 1)

(***************************************************************************)
(* Permission Extractor.  A PermissionSet is a dict resource -> list of    *)
(* verbs: a sequence of [resource, verbs] entries.                         *)
(***************************************************************************)
HasKey(permissions, resource) ==
    \E k \in 1..Len(permissions) : permissions[k].resource = resource

KeyIndex(permissions, resource) ==
    CHOOSE k \in 1..Len(permissions) : permissions[k].resource = resource

\* Mutant of VerbLoop: every verb is appended, also one already in the list.
RECURSIVE VerbLoop_NoDedup(_, _, _)
VerbLoop_NoDedup(lst, verbs, j) ==
    IF j > Len(verbs) THEN lst
    ELSE VerbLoop_NoDedup(Append(lst, verbs[j]), verbs, j + 1)

\* for verb in verbs: if verb not in permissions[resource]: append
RECURSIVE VerbLoop(_, _, _)
VerbLoop(lst, verbs, j) ==
    IF j > Len(verbs) THEN lst
    ELSE VerbLoop(IF InList(verbs[j], lst) THEN lst ELSE Append(lst, verbs[j]),
                  verbs, j + 1)

\* for resource in resources: ...
RECURSIVE ResourceLoop(_, _, _, _)
ResourceLoop(permissions, resources, verbs, i) ==
    IF i > Len(resources) THEN permissions
    ELSE LET resource == resources[i]
             p1 == IF HasKey(permissions, resource) THEN permissions
                   ELSE Append(permissions,
                               [resource |-> resource, verbs |-> <<>>])
             k == KeyIndex(p1, resource)
             p2 == [p1 EXCEPT ![k].verbs = VerbLoop(@, verbs, 1)]
         IN  ResourceLoop(p2, resources, verbs, i + 1)

\* The result of a call that can raise: err is TRUE when an exception left it.
Returned(v) == [err |-> FALSE, val |-> v]
Raised == [err |-> TRUE, val |-> <<>>]

\* One rule of main.py's loop.  rule.get('verbs', []) and
\* rule.get('resources', []) return the value stored under the key, which
\* to_dict() always sets: None for an unset attribute.  Iterating None raises
\* TypeError: for the resources at once, for the verbs when the first resource
\* is reached.
MainRuleRaises(rule) ==
    \/ ~rule.resources.some
    \/ rule.resources.val # <<>> /\ ~rule.verbs.some

RECURSIVE MainRulesLoop(_, _, _)
MainRulesLoop(permissions, rules, n) ==
    IF n > Len(rules) THEN Returned(permissions)
    ELSE IF MainRuleRaises(rules[n]) THEN Raised
         ELSE MainRulesLoop(ResourceLoop(permissions, rules[n].resources.val,
                                         rules[n].verbs.val, 1),
                            rules, n + 1)

\* KubernetesAccessMonitor._extract_permissions_from_role.  The key 'rules'
\* is in every role dict made by to_dict(); "for rule in None" raises.
MainExtractPermissionsFromRole(role_data) ==
    IF ~role_data.rules.some THEN Raised
    ELSE MainRulesLoop(<<>>, role_data.rules.val, 1)

RECURSIVE ExpRulesLoop(_, _, _)
ExpRulesLoop(permissions, rules, n) ==
    IF n > Len(rules) THEN permissions
    ELSE ExpRulesLoop(ResourceLoop(permissions, OrEmpty(rules[n].resources),
                                   OrEmpty(rules[n].verbs), 1),
                      rules, n + 1)

\* MetricsExporter._extract_permissions
ExpExtractPermissions(role) ==
    IF Truthy(role.rules) THEN ExpRulesLoop(<<>>, role.rules.val, 1)
    ELSE <<>>

(***************************************************************************)
(* Dicts: sequences of [key, val] entries with unique keys.                *)
(***************************************************************************)
DictHas(d, key) == \E k \in 1..Len(d) : d[k].key = key

DictGet(d, key) == d[CHOOSE k \in 1..Len(d) : d[k].key = key].val

\* d[key] = val
DictPut(d, key, val) ==
    IF DictHas(d, key)
    THEN [k \in 1..Len(d) |-> IF d[k].key = key
                              THEN [key |-> key, val |-> val] ELSE d[k]]
    ELSE Append(d, [key |-> key, val |-> val])

(***************************************************************************)
(* RBAC Snapshot Fetcher of the monitor: what each list call returns when  *)
(* it succeeds.                                                            *)
(***************************************************************************)
\* {role.metadata.name: role.to_dict() for role in roles.items}
RECURSIVE MainClusterRolesDict(_, _, _)
MainClusterRolesDict(d, items, n) ==
    IF n > Len(items) THEN d
    ELSE MainClusterRolesDict(DictPut(d, items[n].metadata.name, items[n]),
                              items, n + 1)

\* Mutant of RoleKey: a Role is keyed by its name alone.
RoleKey_NameOnly(namespace, name) == name

\* key = f"{role.metadata.namespace}/{role.metadata.name}"
RoleKey(namespace, name) == namespace \o "/" \o name

RECURSIVE MainRolesDict(_, _, _)
MainRolesDict(roles_dict, items, n) ==
    IF n > Len(items) THEN roles_dict
    ELSE MainRolesDict(DictPut(roles_dict,
                               RoleKey(items[n].metadata.namespace,
                                       items[n].metadata.name),
                               items[n]),
                       items, n + 1)

(***************************************************************************)
(* Access Resolver: the two loops of _get_user_accesses.                   *)
(***************************************************************************)
ClusterGrant(permissions) ==
    [namespace |-> "", resources |-> permissions, is_cluster |-> TRUE]

\* Mutant of RoleGrant: the namespace is the default of
\* binding.get('metadata', {}).get('namespace', 'default'), not the binding's.
RoleGrant_DefaultNamespace(namespace, permissions) ==
    [namespace |-> "default", resources |-> permissions, is_cluster |-> FALSE]

RoleGrant(namespace, permissions) ==
    [namespace |-> namespace, resources |-> permissions, is_cluster |-> FALSE]

\* Mutant of MainClusterBindingLoop: a ClusterRole that is not in the
\* snapshot is looked up all the same (cluster_roles[role_name] raises).
RECURSIVE MainClusterBindingLoop_MissingRaises(_, _, _, _, _, _)
MainClusterBindingLoop_MissingRaises(accesses, ud, username, cbs, crs, n) ==
    IF n > Len(cbs) THEN Returned(accesses)
    ELSE LET binding == cbs[n]
             subjects == binding.subjects
             role_name == binding.role_ref.name
         IN  IF MainUserMatchesSubjects(ud, username, subjects)
             THEN IF ~DictHas(crs, role_name) THEN Raised
                  ELSE
                  LET permissions ==
                          MainExtractPermissionsFromRole(DictGet(crs, role_name))
                  IN  IF permissions.err THEN Raised
                      ELSE MainClusterBindingLoop_MissingRaises(
                               IF permissions.val # <<>>
                               THEN Append(accesses,
                                           ClusterGrant(permissions.val))
                               ELSE accesses,
                               ud, username, cbs, crs, n + 1)
             ELSE MainClusterBindingLoop_MissingRaises(accesses, ud, username,
                                                       cbs, crs, n + 1)

RECURSIVE MainClusterBindingLoop(_, _, _, _, _, _)
MainClusterBindingLoop(accesses, ud, username, cbs, crs, n) ==
    IF n > Len(cbs) THEN Returned(accesses)
    ELSE LET binding == cbs[n]
             subjects == binding.subjects
             role_name == binding.role_ref.name
         IN  IF /\ MainUserMatchesSubjects(ud, username, subjects)
                /\ DictHas(crs, role_name)
             THEN LET permissions ==
                          MainExtractPermissionsFromRole(DictGet(crs, role_name))
                  IN  IF permissions.err THEN Raised
                      ELSE MainClusterBindingLoop(
                               IF permissions.val # <<>>
                               THEN Append(accesses,
                                           ClusterGrant(permissions.val))
                               ELSE accesses,
                               ud, username, cbs, crs, n + 1)
             ELSE MainClusterBindingLoop(accesses, ud, username, cbs, crs,
                                         n + 1)

RECURSIVE MainRoleBindingLoop(_, _, _, _, _, _)
MainRoleBindingLoop(accesses, ud, username, rbs, rs, n) ==
    IF n > Len(rbs) THEN Returned(accesses)
    ELSE LET binding == rbs[n]
             subjects == binding.subjects
             namespace == binding.metadata.namespace
             role_key == RoleKey(namespace, binding.role_ref.name)
         IN  IF /\ MainUserMatchesSubjects(ud, username, subjects)
                /\ DictHas(rs, role_key)
             THEN LET permissions ==
                          MainExtractPermissionsFromRole(DictGet(rs, role_key))
                  IN  IF permissions.err THEN Raised
                      ELSE MainRoleBindingLoop(
                               IF permissions.val # <<>>
                               THEN Append(accesses,
                                           RoleGrant(namespace,
                                                     permissions.val))
                               ELSE accesses,
                               ud, username, rbs, rs, n + 1)
             ELSE MainRoleBindingLoop(accesses, ud, username, rbs, rs, n + 1)

\* _get_user_accesses after its four list calls
MainResolve(ud, username, cbs, rbs, crs, rs) ==
    LET c == MainClusterBindingLoop(<<>>, ud, username, cbs, crs, 1)
    IN  IF c.err THEN Raised
        ELSE MainRoleBindingLoop(c.val, ud, username, rbs, rs, 1)

(***************************************************************************)
(* Roster Loader.                                                          *)
(***************************************************************************)
DictHasUser(users, username) ==
    \E k \in 1..Len(users) : users[k].username = username

\* users[username] = {...}
RECURSIVE LoadLoop(_, _, _)
LoadLoop(users, internals, n) ==
    IF n > Len(internals) THEN Returned(users)
    ELSE IF ~internals[n].has_username THEN Raised   \* KeyError: 'username'
    ELSE LET user == [username |-> internals[n].username,
                      groups |-> internals[n].groups]
         IN  LoadLoop(IF DictHasUser(users, user.username)
                      THEN [k \in 1..Len(users) |->
                                IF users[k].username = user.username
                                THEN user ELSE users[k]]
                      ELSE Append(users, user),
                      internals, n + 1)

\* the body of the try block of _load_users_data
LoadUsers(doc) ==
    IF ~doc.readable \/ ~doc.wellformed THEN Raised
    ELSE LoadLoop(<<>>, doc.internals, 1)

(***************************************************************************)
(* Emission Sink of the monitor.                                           *)
(***************************************************************************)
Timestamp == "now"

LogEntry(user_info, accesses) ==
    [username |-> user_info.username, groups |-> user_info.groups,
     accesses |-> accesses, timestamp |-> Timestamp]

RECURSIVE FlattenVerbs(_, _, _, _, _)
FlattenVerbs(flattened, access, resource, verbs, j) ==
    IF j > Len(verbs) THEN flattened
    ELSE FlattenVerbs(Append(flattened,
                             [namespace |-> access.namespace,
                              resource |-> resource, verb |-> verbs[j],
                              is_cluster |-> access.is_cluster]),
                      access, resource, verbs, j + 1)

RECURSIVE FlattenResources(_, _, _)
FlattenResources(flattened, access, k) ==
    IF k > Len(access.resources) THEN flattened
    ELSE FlattenResources(FlattenVerbs(flattened, access,
                                       access.resources[k].resource,
                                       access.resources[k].verbs, 1),
                          access, k + 1)

RECURSIVE FlattenAccesses(_, _, _)
FlattenAccesses(flattened, accesses, n) ==
    IF n > Len(accesses) THEN flattened
    ELSE FlattenAccesses(FlattenResources(flattened, accesses[n], 1),
                         accesses, n + 1)

\* es_doc of KubernetesAccessMonitor._send_to_elasticsearch
MainEsDoc(log_entry) ==
    [username |-> log_entry.username, groups |-> log_entry.groups,
     timestamp |-> log_entry.timestamp,
     access_count |-> Len(log_entry.accesses),
     at_timestamp |-> log_entry.timestamp,
     flattened_accesses |-> FlattenAccesses(<<>>, log_entry.accesses, 1)]

(***************************************************************************)
(* Input domains.                                                          *)
(***************************************************************************)
Usernames == {"alice", "bob"}
SubjectKinds == {"User", "Group", "ServiceAccount"}
SubjectNames == {"alice", "bob", "dev"}
ResourceNames == {"pods", "secrets"}
VerbNames == {"get", "list"}

Subjects == [kind : SubjectKinds, name : SubjectNames]
SubjectLists == OptSeqUpTo(Subjects, MaxSubjects)

Rosters ==
    { <<[username |-> "alice", groups |-> <<"dev">>],
        [username |-> "bob", groups |-> <<>>]>>,
      <<[username |-> "bob", groups |-> <<"ops", "dev">>]>>,
      <<>> }

NoRet == [done |-> FALSE]
NoCall == [fn |-> "none"]

\* the objects of the cluster the monitor runs against
Rule(resources, verbs) == [resources |-> Some(resources), verbs |-> Some(verbs)]

ClusterRoleItems ==
    << [metadata |-> [name |-> "viewer"],
        rules |-> Some(<<Rule(<<"pods">>, <<"get", "list">>)>>)],
       \* a rule on non-resource URLs has no resources
       [metadata |-> [name |-> "discovery"],
        rules |-> Some(<<[resources |-> None, verbs |-> Some(<<"get">>)]>>)],
       [metadata |-> [name |-> "nothing"], rules |-> Some(<<>>)] >>

RoleItems ==
    << [metadata |-> [namespace |-> "billing", name |-> "editor"],
        rules |-> Some(<<Rule(<<"secrets", "pods">>, <<"get">>),
                         Rule(<<"secrets">>, <<"update", "get">>)>>)],
       [metadata |-> [namespace |-> "default", name |-> "viewer"],
        rules |-> Some(<<Rule(<<"pods">>, <<"get">>)>>)] >>

ClusterRoleBindingPool ==
    { [subjects |-> Some(<<[kind |-> "User", name |-> "alice"]>>),
       role_ref |-> [kind |-> "ClusterRole", name |-> "viewer"]],
      [subjects |-> Some(<<[kind |-> "Group", name |-> "ops"]>>),
       role_ref |-> [kind |-> "ClusterRole", name |-> "discovery"]],
      [subjects |-> Some(<<[kind |-> "ServiceAccount", name |-> "bob"],
                           [kind |-> "User", name |-> "bob"]>>),
       role_ref |-> [kind |-> "ClusterRole", name |-> "nothing"]] }

RoleBindingPool ==
    { [metadata |-> [namespace |-> "billing"],
       subjects |-> Some(<<[kind |-> "Group", name |-> "dev"]>>),
       role_ref |-> [kind |-> "Role", name |-> "editor"]],
      [metadata |-> [namespace |-> "default"],
       subjects |-> Some(<<[kind |-> "User", name |-> "bob"]>>),
       role_ref |-> [kind |-> "ClusterRole", name |-> "viewer"]] }

\* an entry of data[0].internals
UserInfo(username, groups) ==
    [has_username |-> TRUE, username |-> username, groups |-> groups]

NamelessInfo == [has_username |-> FALSE, username |-> "", groups |-> <<>>]

UnreadableDoc == [readable |-> FALSE, wellformed |-> FALSE, internals |-> <<>>]
MalformedDoc == [readable |-> TRUE, wellformed |-> FALSE, internals |-> <<>>]

RosterDoc(internals) ==
    [readable |-> TRUE, wellformed |-> TRUE, internals |-> internals]

\* the roster documents a process is started with
RosterDocs ==
    { UnreadableDoc, MalformedDoc,
      RosterDoc(<<>>),
      RosterDoc(<<UserInfo("alice", <<"dev">>)>>),
      RosterDoc(<<UserInfo("alice", <<"dev">>), UserInfo("bob", <<"ops">>)>>),
      RosterDoc(<<UserInfo("bob", <<>>), UserInfo("alice", <<"dev">>)>>),
      \* the same username twice: the later entry replaces the earlier
      RosterDoc(<<UserInfo("bob", <<"ops">>), UserInfo("bob", <<"dev">>)>>),
      RosterDoc(<<UserInfo("alice", <<"dev">>), NamelessInfo>>) }

RBACKinds == {"cluster_role_bindings", "role_bindings", "cluster_roles",
              "roles"}

\* a line left in the output file by an earlier run
OldLine == [username |-> "alice", groups |-> <<>>, accesses |-> <<>>,
            timestamp |-> "before"]

\* no environment: for the direct calls of the pure functions
EnvOff ==
    /\ input_file = UnreadableDoc
    /\ kube_config = FALSE
    /\ cluster = [cluster_role_bindings |-> <<>>, role_bindings |-> <<>>,
                  cluster_roles |-> <<>>, roles |-> <<>>]

\* the roster document, the Kubernetes configuration and the cluster a
\* process starts against
EnvInit ==
    /\ input_file \in RosterDocs
    /\ kube_config \in BOOLEAN
    /\ \E cn \in 0..MaxClusterBindings, rn \in 0..MaxRoleBindings :
       \E cbs \in [1..cn -> ClusterRoleBindingPool],
          rbs \in [1..rn -> RoleBindingPool] :
              cluster = [cluster_role_bindings |-> cbs, role_bindings |-> rbs,
                         cluster_roles |-> ClusterRoleItems,
                         roles |-> RoleItems]

NoResponse == [status |-> 0, body |-> {}]

\* the exporter when it is not run
ExporterOff ==
    /\ epc = "off"
    /\ exp_users_data = <<>>
    /\ exp_cluster_bindings = <<>> /\ exp_role_bindings = <<>>
    /\ exp_cluster_roles = <<>> /\ exp_roles = <<>>
    /\ exp_raised = ""
    /\ namespace_metrics = <<>>
    /\ response = NoResponse
    /\ scrapes = 0

\* the monitor when it is not run
MonitorOff ==
    /\ pc = "off"
    /\ users_data = <<>>
    /\ es_client = FALSE
    /\ idx = 0
    /\ cluster_bindings = <<>> /\ role_bindings = <<>>
    /\ cluster_roles = <<>> /\ roles = <<>>
    /\ stdout = <<>> /\ output_file = <<>> /\ elasticsearch = <<>>
    /\ api_calls = [k \in RBACKinds |-> 0]
    /\ list_failed = {}
    /\ trace = <<>>
    /\ io_failed = {}
    /\ faults = 0

NoLogFile == [exists |-> FALSE, lines |-> <<>>]

\* the sidecar when it is not run
SidecarOff ==
    /\ log_file = NoLogFile
    /\ processed_file = <<>>
    /\ indexed = <<>>
    /\ spc = "off"
    /\ sc_es_client = FALSE
    /\ processed_lines = {} /\ new_entries = <<>>
    /\ entry_idx = 0
    /\ last_send = "none"
    /\ sent = <<>>
    /\ marks = {}
    /\ passes = 0 /\ kills = 0 /\ sc_faults = 0

(***************************************************************************)
(* SpecMatch: the Subject Matcher applied to every input of the domain.    *)
(***************************************************************************)
InitMatch ==
    /\ SidecarOff
    /\ call \in [fn : {"user_matches_subjects"}, users_data : Rosters,
                 username : Usernames, subjects : SubjectLists]
    /\ ret = NoRet
    /\ EnvOff /\ MonitorOff /\ ExporterOff

MainMatch ==
    /\ call.fn = "user_matches_subjects"
    /\ ret = NoRet
    /\ ret' = [done |-> TRUE, by |-> "main",
               val |-> MainUserMatchesSubjects(call.users_data, call.username,
                                               call.subjects)]
    /\ UNCHANGED <<sidecarVars, call, envVars, monitorVars, exporterVars>>

ExpMatch ==
    /\ call.fn = "user_matches_subjects"
    /\ ret = NoRet
    /\ ret' = [done |-> TRUE, by |-> "exporter",
               val |-> ExpUserMatchesSubjects(call.users_data, call.username,
                                              call.subjects)]
    /\ UNCHANGED <<sidecarVars, call, envVars, monitorVars, exporterVars>>

NextMatch == MainMatch \/ ExpMatch

SpecMatch == InitMatch /\ [][NextMatch]_vars

(***************************************************************************)
(* SpecExtract: the Permission Extractor applied to every role.            *)
(***************************************************************************)
\* the role of the example of the Permission Extractor
ExampleRole ==
    [rules |-> Some(<<Rule(<<"pods">>, <<"get", "get", "list">>),
                      Rule(<<"pods">>, <<"watch">>)>>)]

\* how many names the first n of the lists give in all
RECURSIVE NamedIn(_, _)
NamedIn(lists, n) ==
    IF n = 0 THEN 0 ELSE Len(OrEmpty(lists[n])) + NamedIn(lists, n - 1)

InitExtract ==
    /\ SidecarOff
    /\ \/ call = [fn |-> "extract_permissions", role |-> [rules |-> None]]
       \/ call = [fn |-> "extract_permissions", role |-> ExampleRole]
       \/ \E k \in 0..MaxRules :
          \E verbs \in [1..k -> OptSeqUpTo(VerbNames, MaxVerbs)] :
              /\ NamedIn(verbs, k) <= MaxVerbs
              /\ \E resources \in
                         [1..k -> OptSeqUpTo(ResourceNames, MaxResources)] :
                     /\ NamedIn(resources, k) <= MaxResources
                     /\ call = [fn |-> "extract_permissions",
                                role |-> [rules |-> Some(
                                    [n \in 1..k |->
                                        [resources |-> resources[n],
                                         verbs |-> verbs[n]]])]]
    /\ ret = NoRet
    /\ EnvOff /\ MonitorOff /\ ExporterOff

MainExtract ==
    /\ call.fn = "extract_permissions"
    /\ ret = NoRet
    /\ ret' = [done |-> TRUE, by |-> "main",
               res |-> MainExtractPermissionsFromRole(call.role)]
    /\ UNCHANGED <<sidecarVars, call, envVars, monitorVars, exporterVars>>

ExpExtract ==
    /\ call.fn = "extract_permissions"
    /\ ret = NoRet
    /\ ret' = [done |-> TRUE, by |-> "exporter",
               res |-> Returned(ExpExtractPermissions(call.role))]
    /\ UNCHANGED <<sidecarVars, call, envVars, monitorVars, exporterVars>>

NextExtract == MainExtract \/ ExpExtract

SpecExtract == InitExtract /\ [][NextExtract]_vars

(***************************************************************************)
(* Spec: one run of the access monitor (main() of main.py) against a       *)
(* cluster whose bindings can be deleted while it runs.                    *)
(***************************************************************************)
Init ==
    /\ SidecarOff
    /\ call = NoCall /\ ret = NoRet
    /\ EnvInit
    /\ ExporterOff
    /\ pc = "new"
    /\ users_data = <<>>
    /\ es_client = FALSE
    /\ idx = 0
    /\ cluster_bindings = <<>> /\ role_bindings = <<>>
    /\ cluster_roles = <<>> /\ roles = <<>>
    /\ stdout = <<>>
    /\ output_file = <<OldLine>>
    /\ elasticsearch = <<>>
    /\ api_calls = [k \in RBACKinds |-> 0]
    /\ list_failed = {}
    /\ trace = <<>>
    /\ io_failed = {}
    /\ faults = 0

\* Mutant of LoopPc: the loop ends one user early.
LoopPc_SkipsLast(i, users) ==
    IF i < Len(users) THEN "list_cluster_role_bindings" ELSE "done"

\* where the loop of collect_and_log_accesses goes with position i
LoopPc(i, users) == IF i <= Len(users) THEN "list_cluster_role_bindings"
                    ELSE "done"

\* KubernetesAccessMonitor.__init__, up to the entry of the loop of
\* collect_and_log_accesses.  A roster that does not load, or a Kubernetes
\* configuration that does not, ends the process with sys.exit(1).
Construct ==
    /\ pc = "new"
    /\ LET loaded == LoadUsers(input_file)
       IN  IF loaded.err \/ ~kube_config
           THEN /\ pc' = "exit1"
                /\ UNCHANGED <<users_data, es_client, idx>>
           ELSE /\ users_data' = loaded.val
                /\ es_client' \in BOOLEAN
                /\ idx' = 1
                /\ pc' = LoopPc(1, loaded.val)
    /\ UNCHANGED <<sidecarVars, pureVars, envVars, exporterVars, localVars, outVars, histVars>>

\* one list call: it returns the items, or raises ApiException, which the
\* caller answers with an empty collection
ListCall(kind, next_pc) ==
    /\ pc = "list_" \o kind
    /\ pc' = next_pc
    /\ api_calls' = [api_calls EXCEPT ![kind] = @ + 1]

ListFails(kind) ==
    /\ faults < MaxFaults
    /\ faults' = faults + 1
    /\ list_failed' = list_failed \cup {kind}

ListSucceeds == UNCHANGED <<faults, list_failed>>

\* Mutant of GetClusterRoleBindings: a failed call leaves the collection of
\* the previous user in place.
GetClusterRoleBindings_Stale ==
    /\ ListCall("cluster_role_bindings", "list_role_bindings")
    /\ \/ ListSucceeds /\ cluster_bindings' = cluster.cluster_role_bindings
       \/ ListFails("cluster_role_bindings") /\ UNCHANGED cluster_bindings
    /\ UNCHANGED <<sidecarVars, pureVars, envVars, exporterVars, users_data, es_client, idx,
                   role_bindings, cluster_roles, roles, outVars, trace,
                   io_failed>>

GetClusterRoleBindings ==
    /\ ListCall("cluster_role_bindings", "list_role_bindings")
    /\ \/ ListSucceeds /\ cluster_bindings' = cluster.cluster_role_bindings
       \/ ListFails("cluster_role_bindings") /\ cluster_bindings' = <<>>
    /\ UNCHANGED <<sidecarVars, pureVars, envVars, exporterVars, users_data, es_client, idx,
                   role_bindings, cluster_roles, roles, outVars, trace,
                   io_failed>>

GetRoleBindings ==
    /\ ListCall("role_bindings", "list_cluster_roles")
    /\ \/ ListSucceeds /\ role_bindings' = cluster.role_bindings
       \/ ListFails("role_bindings") /\ role_bindings' = <<>>
    /\ UNCHANGED <<sidecarVars, pureVars, envVars, exporterVars, users_data, es_client, idx,
                   cluster_bindings, cluster_roles, roles, outVars, trace,
                   io_failed>>

GetClusterRoles ==
    /\ ListCall("cluster_roles", "list_roles")
    /\ \/ /\ ListSucceeds
          /\ cluster_roles' = MainClusterRolesDict(<<>>, cluster.cluster_roles, 1)
       \/ ListFails("cluster_roles") /\ cluster_roles' = <<>>
    /\ UNCHANGED <<sidecarVars, pureVars, envVars, exporterVars, users_data, es_client, idx,
                   cluster_bindings, role_bindings, roles, outVars, trace,
                   io_failed>>

GetRoles ==
    /\ ListCall("roles", "resolve")
    /\ \/ ListSucceeds /\ roles' = MainRolesDict(<<>>, cluster.roles, 1)
       \/ ListFails("roles") /\ roles' = <<>>
    /\ UNCHANGED <<sidecarVars, pureVars, envVars, exporterVars, users_data, es_client, idx,
                   cluster_bindings, role_bindings, cluster_roles, outVars,
                   trace, io_failed>>

\* The rest of _get_user_accesses, then the log entry is built and printed.
\* An exception of the extraction is caught nowhere: the process dies.
ResolveAndPrint ==
    /\ pc = "resolve"
    /\ LET username == users_data[idx].username
           accesses == MainResolve(users_data, username, cluster_bindings,
                                   role_bindings, cluster_roles, roles)
       IN  IF accesses.err
           THEN /\ pc' = "crashed"
                /\ UNCHANGED <<stdout, trace>>
           ELSE /\ stdout' = Append(stdout,
                                    LogEntry(users_data[idx], accesses.val))
                /\ trace' = Append(trace,
                                   [list_failed |-> list_failed,
                                    cluster_bindings |-> cluster_bindings,
                                    role_bindings |-> role_bindings,
                                    cluster_roles |-> cluster_roles,
                                    roles |-> roles])
                /\ pc' = "write_file"
    /\ UNCHANGED <<sidecarVars, pureVars, envVars, exporterVars, users_data, es_client, idx, localVars,
                   output_file, elasticsearch, api_calls, list_failed,
                   io_failed, faults>>

\* Mutant of WriteFile: the failure of the write is not caught.
WriteFile_Uncaught ==
    /\ pc = "write_file"
    /\ \/ /\ output_file' = Append(output_file, stdout[Len(stdout)])
          /\ pc' = "send_to_elasticsearch"
          /\ UNCHANGED <<io_failed, faults>>
       \/ /\ faults < MaxFaults
          /\ faults' = faults + 1
          /\ io_failed' = io_failed \cup {<<idx, "file">>}
          /\ pc' = "crashed"
          /\ UNCHANGED output_file
    /\ UNCHANGED <<sidecarVars, pureVars, envVars, exporterVars, users_data, es_client, idx, localVars,
                   stdout, elasticsearch, api_calls, list_failed, trace>>

\* with open(self.output_file, 'a') ... f.write(...), in its try block
WriteFile ==
    /\ pc = "write_file"
    /\ \/ /\ output_file' = Append(output_file, stdout[Len(stdout)])
          /\ UNCHANGED <<io_failed, faults>>
       \/ /\ faults < MaxFaults
          /\ faults' = faults + 1
          /\ io_failed' = io_failed \cup {<<idx, "file">>}
          /\ UNCHANGED output_file
    /\ pc' = "send_to_elasticsearch"
    /\ UNCHANGED <<sidecarVars, pureVars, envVars, exporterVars, users_data, es_client, idx, localVars,
                   stdout, elasticsearch, api_calls, list_failed, trace>>

\* self._send_to_elasticsearch(log_entry), then the next user
SendToElasticsearch ==
    /\ pc = "send_to_elasticsearch"
    /\ \/ /\ ~es_client
          /\ UNCHANGED <<elasticsearch, io_failed, faults>>
       \/ /\ es_client
          /\ elasticsearch' = Append(elasticsearch,
                                     MainEsDoc(stdout[Len(stdout)]))
          /\ UNCHANGED <<io_failed, faults>>
       \/ /\ es_client
          /\ faults < MaxFaults
          /\ faults' = faults + 1
          /\ io_failed' = io_failed \cup {<<idx, "es">>}
          /\ UNCHANGED elasticsearch
    /\ idx' = idx + 1
    /\ pc' = LoopPc(idx + 1, users_data)
    /\ list_failed' = {}
    /\ UNCHANGED <<sidecarVars, pureVars, envVars, exporterVars, users_data, es_client, localVars,
                   stdout, output_file, api_calls, trace>>

Remove(seq, n) == [k \in 1..(Len(seq) - 1) |-> IF k < n THEN seq[k]
                                               ELSE seq[k + 1]]

\* Somebody deletes a binding while the monitor runs.  The monitor sees the
\* cluster through its list calls only, so a deletion is placed right before
\* the list call of its kind.
DeleteClusterRoleBinding ==
    /\ pc = "list_cluster_role_bindings"
    /\ \E n \in 1..Len(cluster.cluster_role_bindings) :
           cluster' = [cluster EXCEPT !.cluster_role_bindings = Remove(@, n)]
    /\ UNCHANGED <<sidecarVars, pureVars, input_file, kube_config, monitorVars, exporterVars>>

DeleteRoleBinding ==
    /\ pc = "list_role_bindings"
    /\ \E n \in 1..Len(cluster.role_bindings) :
           cluster' = [cluster EXCEPT !.role_bindings = Remove(@, n)]
    /\ UNCHANGED <<sidecarVars, pureVars, input_file, kube_config, monitorVars, exporterVars>>

Next ==
    \/ Construct
    \/ GetClusterRoleBindings
    \/ GetRoleBindings
    \/ GetClusterRoles
    \/ GetRoles
    \/ ResolveAndPrint
    \/ WriteFile
    \/ SendToElasticsearch
    \/ DeleteClusterRoleBinding
    \/ DeleteRoleBinding

Spec == Init /\ [][Next]_vars

(***************************************************************************)
(* The metrics exporter.                                                   *)
(***************************************************************************)
SensitiveNamespaces == {"kube-system", "default"}
SensitiveResources == {"secrets", "pods", "nodes", "namespaces"}

\* cluster_roles[role.metadata.name] = role
RECURSIVE ExpClusterRolesDict(_, _, _)
ExpClusterRolesDict(d, items, n) ==
    IF n > Len(items) THEN d
    ELSE ExpClusterRolesDict(DictPut(d, items[n].metadata.name, items[n]),
                             items, n + 1)

RECURSIVE ExpRolesDict(_, _, _)
ExpRolesDict(d, items, n) ==
    IF n > Len(items) THEN d
    ELSE ExpRolesDict(DictPut(d, RoleKey(items[n].metadata.namespace,
                                         items[n].metadata.name),
                              items[n]),
                      items, n + 1)

\* A metrics dict {key: {username: count}} is a function from its keys to
\* functions from usernames to counts; the order of its entries, which
\* follows the iteration order of the set self.sensitive_namespaces, is not
\* kept.
\* metrics[key][username] = metrics[key].get(username, 0) + 1
ExpCount(metrics, key, username) ==
    LET users == IF key \in DOMAIN metrics THEN metrics[key] ELSE <<>>
        count == IF username \in DOMAIN users THEN users[username] ELSE 0
    IN  [k \in DOMAIN metrics \cup {key} |->
            IF k = key
            THEN [u \in DOMAIN users \cup {username} |->
                     IF u = username THEN count + 1 ELSE users[u]]
            ELSE metrics[k]]

\* key = f"{namespace}_{verb}_{resource}", and f"{verb}_{resource}" with the
\* prefix ""
MetricKey(prefix, verb, resource) == prefix \o verb \o "_" \o resource

NamespacePrefix(namespace) == namespace \o "_"

RECURSIVE ExpVerbLoop(_, _, _, _, _, _)
ExpVerbLoop(metrics, prefix, resource, verbs, username, j) ==
    IF j > Len(verbs) THEN metrics
    ELSE ExpVerbLoop(ExpCount(metrics, MetricKey(prefix, verbs[j], resource),
                              username),
                     prefix, resource, verbs, username, j + 1)

\* for resource, verbs in permissions.items():
\*     if resource in self.sensitive_resources: ...
RECURSIVE ExpPermissionLoop(_, _, _, _, _)
ExpPermissionLoop(metrics, prefix, permissions, username, k) ==
    IF k > Len(permissions) THEN metrics
    ELSE ExpPermissionLoop(
             IF permissions[k].resource \in SensitiveResources
             THEN ExpVerbLoop(metrics, prefix, permissions[k].resource,
                              permissions[k].verbs, username, 1)
             ELSE metrics,
             prefix, permissions, username, k + 1)

\* for namespace in self.sensitive_namespaces: ...
RECURSIVE ExpNamespaceLoop(_, _, _, _)
ExpNamespaceLoop(metrics, namespaces, permissions, username) ==
    IF namespaces = {} THEN metrics
    ELSE LET namespace == CHOOSE ns \in namespaces : TRUE
         IN  ExpNamespaceLoop(
                 ExpPermissionLoop(metrics, NamespacePrefix(namespace),
                                   permissions, username, 1),
                 namespaces \ {namespace}, permissions, username)

\* Mutant of ExpNsClusterUserLoop: a cluster-wide grant is attributed to the
\* namespace default only.
RECURSIVE ExpNsClusterUserLoop_DefaultOnly(_, _, _, _, _)
ExpNsClusterUserLoop_DefaultOnly(metrics, ud, subjects, permissions, n) ==
    IF n > Len(ud) THEN metrics
    ELSE ExpNsClusterUserLoop_DefaultOnly(
             IF ExpUserMatchesSubjects(ud, ud[n].username, subjects)
             THEN ExpNamespaceLoop(metrics, {"default"}, permissions,
                                   ud[n].username)
             ELSE metrics,
             ud, subjects, permissions, n + 1)

\* for username in self.users_data.keys(): ..., for a cluster role binding
\* of calculate_namespace_sensitive_metrics
RECURSIVE ExpNsClusterUserLoop(_, _, _, _, _)
ExpNsClusterUserLoop(metrics, ud, subjects, permissions, n) ==
    IF n > Len(ud) THEN metrics
    ELSE ExpNsClusterUserLoop(
             IF ExpUserMatchesSubjects(ud, ud[n].username, subjects)
             THEN ExpNamespaceLoop(metrics, SensitiveNamespaces, permissions,
                                   ud[n].username)
             ELSE metrics,
             ud, subjects, permissions, n + 1)

\* the same loop for a role binding, and for a cluster role binding of
\* calculate_cluster_wide_sensitive_metrics with the prefix ""
RECURSIVE ExpUserLoop(_, _, _, _, _, _)
ExpUserLoop(metrics, ud, subjects, prefix, permissions, n) ==
    IF n > Len(ud) THEN metrics
    ELSE ExpUserLoop(
             IF ExpUserMatchesSubjects(ud, ud[n].username, subjects)
             THEN ExpPermissionLoop(metrics, prefix, permissions,
                                    ud[n].username, 1)
             ELSE metrics,
             ud, subjects, prefix, permissions, n + 1)

\* the tests that skip a cluster role binding
ExpClusterBindingCounts(binding, crs) ==
    /\ Truthy(binding.subjects)
    /\ binding.role_ref.kind = "ClusterRole"
    /\ DictHas(crs, binding.role_ref.name)

RECURSIVE ExpNsClusterBindingLoop(_, _, _, _, _)
ExpNsClusterBindingLoop(metrics, ud, cbs, crs, n) ==
    IF n > Len(cbs) THEN metrics
    ELSE ExpNsClusterBindingLoop(
             IF ExpClusterBindingCounts(cbs[n], crs)
             THEN ExpNsClusterUserLoop(
                      metrics, ud, cbs[n].subjects,
                      ExpExtractPermissions(DictGet(crs,
                                                    cbs[n].role_ref.name)),
                      1)
             ELSE metrics,
             ud, cbs, crs, n + 1)

\* the tests that skip a role binding
ExpRoleBindingCounts(binding, rs) ==
    /\ Truthy(binding.subjects)
    /\ binding.metadata.namespace \in SensitiveNamespaces
    /\ DictHas(rs, RoleKey(binding.metadata.namespace, binding.role_ref.name))

\* Mutant of ExpRoleBindingLoop: the users of a role binding are recorded
\* under the keys of the namespace default.
RECURSIVE ExpRoleBindingLoop_DefaultKey(_, _, _, _, _)
ExpRoleBindingLoop_DefaultKey(metrics, ud, rbs, rs, n) ==
    IF n > Len(rbs) THEN metrics
    ELSE ExpRoleBindingLoop_DefaultKey(
             IF ExpRoleBindingCounts(rbs[n], rs)
             THEN ExpUserLoop(
                      metrics, ud, rbs[n].subjects,
                      NamespacePrefix("default"),
                      ExpExtractPermissions(
                          DictGet(rs, RoleKey(rbs[n].metadata.namespace,
                                              rbs[n].role_ref.name))),
                      1)
             ELSE metrics,
             ud, rbs, rs, n + 1)

RECURSIVE ExpRoleBindingLoop(_, _, _, _, _)
ExpRoleBindingLoop(metrics, ud, rbs, rs, n) ==
    IF n > Len(rbs) THEN metrics
    ELSE ExpRoleBindingLoop(
             IF ExpRoleBindingCounts(rbs[n], rs)
             THEN ExpUserLoop(
                      metrics, ud, rbs[n].subjects,
                      NamespacePrefix(rbs[n].metadata.namespace),
                      ExpExtractPermissions(
                          DictGet(rs, RoleKey(rbs[n].metadata.namespace,
                                              rbs[n].role_ref.name))),
                      1)
             ELSE metrics,
             ud, rbs, rs, n + 1)

\* calculate_namespace_sensitive_metrics after its two fetches
ExpNamespaceMetrics(ud, cbs, rbs, crs, rs) ==
    ExpRoleBindingLoop(ExpNsClusterBindingLoop(<<>>, ud, cbs, crs, 1),
                       ud, rbs, rs, 1)

RECURSIVE ExpCwClusterBindingLoop(_, _, _, _, _)
ExpCwClusterBindingLoop(metrics, ud, cbs, crs, n) ==
    IF n > Len(cbs) THEN metrics
    ELSE ExpCwClusterBindingLoop(
             IF ExpClusterBindingCounts(cbs[n], crs)
             THEN ExpUserLoop(
                      metrics, ud, cbs[n].subjects, "",
                      ExpExtractPermissions(DictGet(crs,
                                                    cbs[n].role_ref.name)),
                      1)
             ELSE metrics,
             ud, cbs, crs, n + 1)

\* calculate_cluster_wide_sensitive_metrics after its two fetches
ExpClusterWideMetrics(ud, cbs, crs) ==
    ExpCwClusterBindingLoop(<<>>, ud, cbs, crs, 1)

\* The names a metric key can be made of.  Namespaces and verbs have no "_",
\* so key.split('_', 2) and key.split('_', 1) give back the parts the key was
\* joined from.
KeyNamespaces == SensitiveNamespaces
KeyVerbs == {"get", "list", "watch", "update"}
KeyResources == SensitiveResources

SplitNamespaceKey(key) ==
    CHOOSE p \in KeyNamespaces \X KeyVerbs \X KeyResources :
        MetricKey(NamespacePrefix(p[1]), p[2], p[3]) = key

SplitClusterWideKey(key) ==
    CHOOSE p \in KeyVerbs \X KeyResources : MetricKey("", p[1], p[2]) = key

\* the counts recorded for the users of a key, added up
RECURSIVE SumCounts(_, _)
SumCounts(users, names) ==
    IF names = {} THEN 0
    ELSE LET u == CHOOSE x \in names : TRUE
         IN  users[u] + SumCounts(users, names \ {u})

\* Mutant of ExpLines: the value of a line is the sum of the counts of its
\* users, not len(users).
ExpLines_SumsCounts(ns_metrics, cw_metrics) ==
    {[metric |-> "k8s_namespace_sensitive_access_users_count",
      namespace |-> SplitNamespaceKey(key)[1],
      verb |-> SplitNamespaceKey(key)[2],
      resource |-> SplitNamespaceKey(key)[3],
      user_count |-> SumCounts(ns_metrics[key], DOMAIN ns_metrics[key])] :
         key \in DOMAIN ns_metrics}
    \cup
    {[metric |-> "k8s_cluster_wide_sensitive_access_users_count",
      namespace |-> "",
      verb |-> SplitClusterWideKey(key)[1],
      resource |-> SplitClusterWideKey(key)[2],
      user_count |-> SumCounts(cw_metrics[key], DOMAIN cw_metrics[key])] :
         key \in DOMAIN cw_metrics}

\* the lines of generate_prometheus_metrics, as a set: their order is the
\* order of the entries of the two dicts
ExpLines(ns_metrics, cw_metrics) ==
    {[metric |-> "k8s_namespace_sensitive_access_users_count",
      namespace |-> SplitNamespaceKey(key)[1],
      verb |-> SplitNamespaceKey(key)[2],
      resource |-> SplitNamespaceKey(key)[3],
      user_count |-> Cardinality(DOMAIN ns_metrics[key])] :
         key \in DOMAIN ns_metrics}
    \cup
    {[metric |-> "k8s_cluster_wide_sensitive_access_users_count",
      namespace |-> "",
      verb |-> SplitClusterWideKey(key)[1],
      resource |-> SplitClusterWideKey(key)[2],
      user_count |-> Cardinality(DOMAIN cw_metrics[key])] :
         key \in DOMAIN cw_metrics}

(***************************************************************************)
(* SpecExporter: the exporter process, from its construction through the   *)
(* requests it serves.                                                     *)
(***************************************************************************)
InitExporter ==
    /\ SidecarOff
    /\ call = NoCall /\ ret = NoRet
    /\ EnvInit
    /\ MonitorOff
    /\ epc = "new"
    /\ exp_users_data = <<>>
    /\ exp_cluster_bindings = <<>> /\ exp_role_bindings = <<>>
    /\ exp_cluster_roles = <<>> /\ exp_roles = <<>>
    /\ exp_raised = ""
    /\ namespace_metrics = <<>>
    /\ response = NoResponse
    /\ scrapes = 0

\* MetricsExporter.__init__ and the start of the server in main().  A roster
\* that does not load is answered with an empty roster, a Kubernetes
\* configuration that does not load with the client None.
ExpConstruct ==
    /\ epc = "new"
    /\ LET loaded == LoadUsers(input_file)
       IN  exp_users_data' = IF loaded.err THEN <<>> ELSE loaded.val
    /\ epc' = "serving"
    /\ UNCHANGED <<sidecarVars, pureVars, envVars, monitorVars, exp_cluster_bindings,
                   exp_role_bindings, exp_cluster_roles, exp_roles,
                   exp_raised, namespace_metrics, response, scrapes>>

\* MetricsHandler.do_GET, up to the first fetch
ExpDoGet ==
    /\ epc = "serving"
    /\ scrapes < MaxScrapes
    /\ scrapes' = scrapes + 1
    /\ \/ /\ epc' = "ns_get_all_bindings"
          /\ response' = NoResponse
       \/ /\ response' = [status |-> 404, body |-> {"Not found"}]
          /\ UNCHANGED epc
    /\ UNCHANGED <<sidecarVars, pureVars, envVars, monitorVars, exp_users_data,
                   exp_cluster_bindings, exp_role_bindings, exp_cluster_roles,
                   exp_roles, exp_raised, namespace_metrics>>

\* MetricsExporter._get_all_bindings: one try block around the two list
\* calls, so the first to raise ApiException ends both
ExpGetAllBindings ==
    /\ epc \in {"ns_get_all_bindings", "cw_get_all_bindings"}
    /\ \/ /\ exp_cluster_bindings' = cluster.cluster_role_bindings
          /\ exp_role_bindings' = cluster.role_bindings
          /\ exp_raised' = ""
       \/ /\ exp_cluster_bindings' = <<>>
          /\ exp_role_bindings' = <<>>
          /\ exp_raised' = "cluster_role_bindings"
       \/ /\ exp_cluster_bindings' = cluster.cluster_role_bindings
          /\ exp_role_bindings' = <<>>
          /\ exp_raised' = "role_bindings"
    /\ epc' = IF epc = "ns_get_all_bindings" THEN "ns_get_roles"
              ELSE "cw_get_roles"
    /\ UNCHANGED <<sidecarVars, pureVars, envVars, monitorVars, exp_users_data,
                   exp_cluster_roles, exp_roles, namespace_metrics, response,
                   scrapes>>

\* MetricsExporter._get_roles: one try block around the two list calls
ExpGetRoles ==
    /\ epc \in {"ns_get_roles", "cw_get_roles"}
    /\ \/ /\ exp_cluster_roles' =
                 ExpClusterRolesDict(<<>>, cluster.cluster_roles, 1)
          /\ exp_roles' = ExpRolesDict(<<>>, cluster.roles, 1)
          /\ exp_raised' = ""
       \/ /\ exp_cluster_roles' = <<>>
          /\ exp_roles' = <<>>
          /\ exp_raised' = "cluster_roles"
       \/ /\ exp_cluster_roles' =
                 ExpClusterRolesDict(<<>>, cluster.cluster_roles, 1)
          /\ exp_roles' = <<>>
          /\ exp_raised' = "roles"
    /\ epc' = IF epc = "ns_get_roles" THEN "ns_calculate" ELSE "cw_calculate"
    /\ UNCHANGED <<sidecarVars, pureVars, envVars, monitorVars, exp_users_data,
                   exp_cluster_bindings, exp_role_bindings, namespace_metrics,
                   response, scrapes>>

\* the loops of calculate_namespace_sensitive_metrics
ExpCalculateNamespace ==
    /\ epc = "ns_calculate"
    /\ namespace_metrics' =
           ExpNamespaceMetrics(exp_users_data, exp_cluster_bindings,
                               exp_role_bindings, exp_cluster_roles, exp_roles)
    /\ epc' = "cw_get_all_bindings"
    /\ UNCHANGED <<sidecarVars, pureVars, envVars, monitorVars, exp_users_data,
                   exp_cluster_bindings, exp_role_bindings, exp_cluster_roles,
                   exp_roles, exp_raised, response, scrapes>>

\* the loops of calculate_cluster_wide_sensitive_metrics, then the lines of
\* generate_prometheus_metrics are written as the response
ExpCalculateClusterWide ==
    /\ epc = "cw_calculate"
    /\ response' =
           [status |-> 200,
            body |-> ExpLines(namespace_metrics,
                              ExpClusterWideMetrics(exp_users_data,
                                                    exp_cluster_bindings,
                                                    exp_cluster_roles))]
    /\ epc' = "serving"
    /\ UNCHANGED <<sidecarVars, pureVars, envVars, monitorVars, exp_users_data,
                   exp_cluster_bindings, exp_role_bindings, exp_cluster_roles,
                   exp_roles, exp_raised, namespace_metrics, scrapes>>

NextExporter ==
    \/ ExpConstruct
    \/ ExpDoGet
    \/ ExpGetAllBindings
    \/ ExpGetRoles
    \/ ExpCalculateNamespace
    \/ ExpCalculateClusterWide

SpecExporter == InitExporter /\ [][NextExporter]_vars

(***************************************************************************)
(* SpecSnapshot: the Access Resolver of the monitor and the aggregation of *)
(* the exporter applied to one roster and one fetched snapshot.            *)
(***************************************************************************)
SnapshotClusterRoles ==
    << [metadata |-> [name |-> "viewer"],
        rules |-> Some(<<Rule(<<"pods">>, <<"get", "list">>)>>)],
       [metadata |-> [name |-> "reader"],
        rules |-> Some(<<Rule(<<"secrets">>, <<"get">>),
                         Rule(<<"configmaps">>, <<"get">>)>>)],
       \* a rule on non-resource URLs has no resources
       [metadata |-> [name |-> "discovery"],
        rules |-> Some(<<[resources |-> None, verbs |-> Some(<<"get">>)]>>)] >>

SnapshotRoles ==
    << [metadata |-> [namespace |-> "kube-system", name |-> "reader"],
        rules |-> Some(<<Rule(<<"secrets">>, <<"get">>)>>)],
       [metadata |-> [namespace |-> "default", name |-> "reader"],
        rules |-> Some(<<Rule(<<"pods">>, <<"get">>),
                         Rule(<<"configmaps">>, <<"list">>)>>)],
       [metadata |-> [namespace |-> "billing", name |-> "reader"],
        rules |-> Some(<<Rule(<<"secrets">>, <<"get", "update">>)>>)] >>

SnapshotClusterRoleBindings ==
    { [subjects |-> Some(<<[kind |-> "User", name |-> "bob"]>>),
       role_ref |-> [kind |-> "ClusterRole", name |-> "reader"]],
      [subjects |-> Some(<<[kind |-> "Group", name |-> "dev"]>>),
       role_ref |-> [kind |-> "ClusterRole", name |-> "reader"]],
      [subjects |-> Some(<<[kind |-> "User", name |-> "alice"]>>),
       role_ref |-> [kind |-> "ClusterRole", name |-> "viewer"]],
      \* the ClusterRole it names is not in the snapshot
      [subjects |-> Some(<<[kind |-> "User", name |-> "bob"]>>),
       role_ref |-> [kind |-> "ClusterRole", name |-> "missing"]],
      [subjects |-> Some(<<[kind |-> "User", name |-> "alice"]>>),
       role_ref |-> [kind |-> "ClusterRole", name |-> "discovery"]] }

SnapshotRoleBindings ==
    { [metadata |-> [namespace |-> "kube-system"],
       subjects |-> Some(<<[kind |-> "User", name |-> "bob"]>>),
       role_ref |-> [kind |-> "Role", name |-> "reader"]],
      [metadata |-> [namespace |-> "kube-system"],
       subjects |-> Some(<<[kind |-> "Group", name |-> "dev"]>>),
       role_ref |-> [kind |-> "ClusterRole", name |-> "reader"]],
      \* no Role default/viewer is in the snapshot
      [metadata |-> [namespace |-> "default"],
       subjects |-> Some(<<[kind |-> "User", name |-> "alice"]>>),
       role_ref |-> [kind |-> "ClusterRole", name |-> "viewer"]],
      [metadata |-> [namespace |-> "billing"],
       subjects |-> Some(<<[kind |-> "User", name |-> "bob"]>>),
       role_ref |-> [kind |-> "Role", name |-> "reader"]],
      [metadata |-> [namespace |-> "default"],
       subjects |-> Some(<<[kind |-> "Group", name |-> "dev"]>>),
       role_ref |-> [kind |-> "Role", name |-> "reader"]] }

InitSnapshot ==
    /\ SidecarOff
    /\ \E cn \in 0..MaxBindings, rn \in 0..MaxBindings :
       \E cbs \in [1..cn -> SnapshotClusterRoleBindings],
          rbs \in [1..rn -> SnapshotRoleBindings] :
              call \in [fn : {"snapshot"}, users_data : Rosters,
                        cluster_bindings : {cbs}, role_bindings : {rbs},
                        cluster_roles : {SnapshotClusterRoles},
                        roles : {SnapshotRoles}]
    /\ ret = NoRet
    /\ EnvOff /\ MonitorOff /\ ExporterOff

\* generate_prometheus_metrics, every list call returning the snapshot
Aggregate ==
    /\ call.fn = "snapshot"
    /\ ret = NoRet
    /\ LET crs == ExpClusterRolesDict(<<>>, call.cluster_roles, 1)
           rs == ExpRolesDict(<<>>, call.roles, 1)
           ns == ExpNamespaceMetrics(call.users_data, call.cluster_bindings,
                                     call.role_bindings, crs, rs)
           cw == ExpClusterWideMetrics(call.users_data, call.cluster_bindings,
                                       crs)
       IN  ret' = [done |-> TRUE, by |-> "exporter",
                   namespace_metrics |-> ns, cluster_metrics |-> cw,
                   lines |-> ExpLines(ns, cw)]
    /\ UNCHANGED <<sidecarVars, call, envVars, monitorVars, exporterVars>>

\* _get_user_accesses for every user of the roster, every list call
\* returning the snapshot
ResolveAll ==
    /\ call.fn = "snapshot"
    /\ ret = NoRet
    /\ LET crs == MainClusterRolesDict(<<>>, call.cluster_roles, 1)
           rs == MainRolesDict(<<>>, call.roles, 1)
           ud == call.users_data
       IN  ret' = [done |-> TRUE, by |-> "main",
                   accesses |->
                       [n \in 1..Len(ud) |->
                           MainResolve(ud, ud[n].username,
                                       call.cluster_bindings,
                                       call.role_bindings, crs, rs)]]
    /\ UNCHANGED <<sidecarVars, call, envVars, monitorVars, exporterVars>>

NextSnapshot == Aggregate \/ ResolveAll

SpecSnapshot == InitSnapshot /\ [][NextSnapshot]_vars

(***************************************************************************)
(* SpecSidecar: the log shipping sidecar in continuous mode, next to a     *)
(* monitor that appends lines to the log file.  The sidecar can be killed  *)
(* at any point and is then started again; the files and the index stay.   *)
(***************************************************************************)
\* the entries the monitor has written
LoggedEntries ==
    {LogEntry([username |-> "alice", groups |-> <<"dev">>],
              <<ClusterGrant(<<[resource |-> "pods",
                                verbs |-> <<"get", "list">>]>>)>>),
     LogEntry([username |-> "bob", groups |-> <<>>], <<>>)}

\* json.dumps of an entry (the text after the username is left out)
Dumps(log_entry) == "{\"username\": \"" \o log_entry.username \o "\", ...}"

\* a line the monitor was stopped in the middle of, and an empty line
TruncatedLine == "{\"username\": \"al"
BlankLine == " "

LogLines == {Dumps(e) : e \in LoggedEntries} \cup {TruncatedLine, BlankLine}

\* str.strip
Strip(line) == IF line = BlankLine THEN "" ELSE line

\* json.loads: a JSONDecodeError for a text that is no JSON document
Loads(line) ==
    IF \E e \in LoggedEntries : Dumps(e) = line
    THEN Returned(CHOOSE e \in LoggedEntries : Dumps(e) = line)
    ELSE Raised

\* the text f"{line_num}" written to the processed file
Marker(line_num) == ToString(line_num)

\* the loop over the lines of the log file in process_logs
RECURSIVE ReadLoop(_, _, _, _)
ReadLoop(entries, lines, processed, line_num) ==
    IF line_num > Len(lines) THEN entries
    ELSE LET line == Strip(lines[line_num])
         IN  IF line = "" \/ line \in processed \/ Loads(line).err
             THEN ReadLoop(entries, lines, processed, line_num + 1)
             ELSE ReadLoop(Append(entries,
                                  [line_num |-> line_num,
                                   log_entry |-> Loads(line).val]),
                           lines, processed, line_num + 1)

\* datetime.fromisoformat of the timestamp with its Z replaced
FromIsoFormat(timestamp) == [datetime |-> timestamp]

\* LogProcessor._transform_for_elasticsearch
TransformForElasticsearch(log_entry) ==
    [username |-> log_entry.username, groups |-> log_entry.groups,
     timestamp |-> log_entry.timestamp,
     access_count |-> Len(log_entry.accesses),
     flattened_accesses |-> FlattenAccesses(<<>>, log_entry.accesses, 1),
     at_timestamp |-> FromIsoFormat(log_entry.timestamp)]

InitSidecar ==
    /\ call = NoCall /\ ret = NoRet
    /\ EnvOff /\ MonitorOff /\ ExporterOff
    /\ log_file = NoLogFile
    /\ processed_file = <<>>
    /\ indexed = <<>>
    /\ spc = "new"
    /\ sc_es_client = FALSE
    /\ processed_lines = {} /\ new_entries = <<>>
    /\ entry_idx = 0
    /\ last_send = "none"
    /\ sent = <<>>
    /\ marks = {}
    /\ passes = 0 /\ kills = 0 /\ sc_faults = 0

ShipFault == sc_faults < MaxShipFaults /\ sc_faults' = sc_faults + 1

\* the monitor appends a line to the log file (main.py, "Save to file")
MonitorAppends ==
    /\ Len(log_file.lines) < MaxLines
    /\ \E line \in LogLines :
           log_file' = [exists |-> TRUE, lines |-> Append(log_file.lines, line)]
    /\ UNCHANGED <<pureVars, envVars, monitorVars, exporterVars,
                   processed_file, indexed, spc, sc_es_client, processed_lines,
                   new_entries, entry_idx, last_send, sent, marks, passes,
                   kills, sc_faults>>

\* LogProcessor.__init__ and the start of run_continuously: the client is
\* None when the elasticsearch package is missing or its constructor raises
ScConstruct ==
    /\ spc = "new"
    /\ sc_es_client' \in BOOLEAN
    /\ spc' = "loop"
    /\ UNCHANGED <<pureVars, envVars, monitorVars, exporterVars, log_file,
                   processed_file, indexed, processed_lines, new_entries,
                   entry_idx, last_send, sent, marks, passes, kills,
                   sc_faults>>

\* process_logs, called by run_continuously, up to its loop over new_entries:
\* it returns when the log file does not exist or cannot be read or holds no
\* new entry; a processed file that cannot be read counts as empty
ScReadLogs ==
    /\ spc = "loop"
    /\ passes < MaxPasses
    /\ passes' = passes + 1
    /\ \/ /\ ~log_file.exists
          /\ processed_lines' = {} /\ new_entries' = <<>>
          /\ spc' = "loop" /\ entry_idx' = 0
          /\ UNCHANGED sc_faults
       \/ /\ log_file.exists
          /\ \/ /\ processed_lines' = {Strip(processed_file[k]) :
                                          k \in 1..Len(processed_file)}
                /\ UNCHANGED sc_faults
             \/ /\ processed_file # <<>>
                /\ ShipFault
                /\ processed_lines' = {}
          /\ new_entries' = ReadLoop(<<>>, log_file.lines, processed_lines', 1)
          /\ IF new_entries' = <<>>
             THEN spc' = "loop" /\ entry_idx' = 0
             ELSE spc' = "entry" /\ entry_idx' = 1
       \/ /\ log_file.exists
          /\ ShipFault
          /\ processed_lines' = {Strip(processed_file[k]) :
                                    k \in 1..Len(processed_file)}
          /\ new_entries' = <<>>
          /\ spc' = "loop" /\ entry_idx' = 0
    /\ UNCHANGED <<pureVars, envVars, monitorVars, exporterVars, log_file,
                   processed_file, indexed, sc_es_client, last_send, sent,
                   marks, kills>>

\* _process_log_entry of new_entries[entry_idx] with _send_to_elasticsearch:
\* a failure of the send is logged and not raised; without a client the
\* document is only logged
ScProcessLogEntry ==
    /\ spc = "entry"
    /\ LET entry == new_entries[entry_idx]
           es_document == TransformForElasticsearch(entry.log_entry)
       IN  IF sc_es_client
           THEN \/ /\ indexed' = Append(indexed, es_document)
                   /\ sent' = Append(sent, entry.line_num)
                   /\ last_send' = "acknowledged"
                   /\ UNCHANGED sc_faults
                \/ /\ ShipFault
                   /\ last_send' = "failed"
                   /\ UNCHANGED <<indexed, sent>>
           ELSE /\ last_send' = "no client"
                /\ UNCHANGED <<indexed, sent, sc_faults>>
    /\ spc' = "mark"
    /\ UNCHANGED <<pureVars, envVars, monitorVars, exporterVars, log_file,
                   processed_file, sc_es_client, processed_lines, new_entries,
                   entry_idx, marks, passes, kills>>

\* "Mark as processed" in the loop of process_logs: the number of the line is
\* appended to the processed file; a failure of the write is logged
ScMarkProcessed ==
    /\ spc = "mark"
    /\ LET line_num == new_entries[entry_idx].line_num
       IN  \/ /\ processed_file' = Append(processed_file, Marker(line_num))
              /\ marks' = marks \cup {[line_num |-> line_num,
                                       send |-> last_send]}
              /\ UNCHANGED sc_faults
           \/ /\ ShipFault
              /\ UNCHANGED <<processed_file, marks>>
    /\ IF entry_idx < Len(new_entries)
       THEN spc' = "entry" /\ entry_idx' = entry_idx + 1
       ELSE spc' = "loop" /\ entry_idx' = 0
    /\ UNCHANGED <<pureVars, envVars, monitorVars, exporterVars, log_file,
                   indexed, sc_es_client, processed_lines, new_entries,
                   last_send, sent, passes, kills>>

\* the sidecar is killed and started again: what it held in memory is lost
ScKill ==
    /\ spc \in {"loop", "entry", "mark"}
    /\ kills < MaxKills
    /\ kills' = kills + 1
    /\ spc' = "new"
    /\ sc_es_client' = FALSE
    /\ processed_lines' = {} /\ new_entries' = <<>>
    /\ entry_idx' = 0
    /\ last_send' = "none"
    /\ UNCHANGED <<pureVars, envVars, monitorVars, exporterVars, log_file,
                   processed_file, indexed, sent, marks, passes, sc_faults>>

NextSidecar ==
    \/ MonitorAppends
    \/ ScConstruct
    \/ ScReadLogs
    \/ ScProcessLogEntry
    \/ ScMarkProcessed
    \/ ScKill

SpecSidecar == InitSidecar /\ [][NextSidecar]_vars

(***************************************************************************)
(* Properties.                                                             *)
(***************************************************************************)
ElemsOf(lst) == {lst[i] : i \in 1..Len(lst)}

NoDuplicates(lst) == \A i, j \in 1..Len(lst) : lst[i] = lst[j] => i = j

\* the groups the roster gives a username
RosterGroups(ud, username) ==
    UNION {ElemsOf(ud[i].groups) :
               i \in {n \in 1..Len(ud) :
                          ud[n].username = username}}

\* a subject list binds a user: it has a User subject named as the user or a
\* Group subject named as one of the user's roster groups
Binds(ud, username, subjects) ==
    /\ subjects.some
    /\ \E i \in 1..Len(subjects.val) :
           LET s == subjects.val[i]
           IN  \/ s.kind = "User" /\ s.name = username
               \/ s.kind = "Group" /\ s.name \in RosterGroups(ud, username)

\* C2: the Subject Matcher (of the monitor and of the exporter) returns true
\* if and only if the subject list has a subject of kind User named as the
\* username or a subject of kind Group named as one of the username's roster
\* groups; an empty or absent list gives false and no other kind matches.
C2_MatchIffUserOrGroupSubject ==
    (call.fn = "user_matches_subjects" /\ ret.done) =>
        (ret.val <=> Binds(call.users_data, call.username, call.subjects))

\* A match found through a Group subject that follows a ServiceAccount subject
\* named as the user.
C2_Witness ==
    /\ call.fn = "user_matches_subjects"
    /\ ret.done /\ ret.by = "main" /\ ret.val
    /\ call.subjects.some /\ Len(call.subjects.val) = 2
    /\ call.subjects.val[1] =
           [kind |-> "ServiceAccount", name |-> call.username]
    /\ call.subjects.val[2].kind = "Group"

RulesOf(role) == OrEmpty(role.rules)

\* the verbs the rules naming a resource give, in the order of the rules
RECURSIVE GivenVerbs(_, _, _)
GivenVerbs(rules, resource, n) ==
    IF n > Len(rules) THEN <<>>
    ELSE (IF resource \in ElemsOf(OrEmpty(rules[n].resources))
          THEN OrEmpty(rules[n].verbs) ELSE <<>>)
         \o GivenVerbs(rules, resource, n + 1)

FirstIndex(lst, x) ==
    CHOOSE i \in 1..Len(lst) : lst[i] = x /\ \A j \in 1..(i - 1) : lst[j] # x

\* C3: the extracted PermissionSet has exactly the resources named by some
\* rule, and the verbs of a resource are the union of the verbs of the rules
\* naming it, without duplicates, in order of first appearance.
C3_ExtractUnionDedupFirstSeen ==
    (call.fn = "extract_permissions" /\ ret.done /\ ~ret.res.err) =>
        LET permissions == ret.res.val
            rules == RulesOf(call.role)
        IN  /\ \A a, b \in 1..Len(permissions) :
                   permissions[a].resource = permissions[b].resource => a = b
            /\ {permissions[a].resource : a \in 1..Len(permissions)} =
                   UNION {ElemsOf(OrEmpty(rules[n].resources)) :
                              n \in 1..Len(rules)}
            /\ \A a \in 1..Len(permissions) :
                   LET given == GivenVerbs(rules, permissions[a].resource, 1)
                       v == permissions[a].verbs
                   IN  /\ ElemsOf(v) = ElemsOf(given)
                       /\ NoDuplicates(v)
                       /\ \A i, j \in 1..Len(v) :
                              i < j => FirstIndex(given, v[i])
                                           < FirstIndex(given, v[j])

\* the example of the claim: pods:[get,get,list] and pods:[watch] give
\* pods:[get,list,watch], from the monitor's extractor and the exporter's
C3_Witness ==
    /\ call.fn = "extract_permissions"
    /\ call.role = ExampleRole
    /\ ret.done /\ ret.by = "exporter" /\ ~ret.res.err
    /\ ret.res.val =
           <<[resource |-> "pods", verbs |-> <<"get", "list", "watch">>]>>
    /\ MainExtractPermissionsFromRole(ExampleRole) = ret.res

\* C4: the Permission Extractor raises no error, whatever the role: absent
\* rules, resources or verbs count as empty lists.
C4_ExtractNeverRaises ==
    (call.fn = "extract_permissions" /\ ret.done) => ~ret.res.err

Snapshot(t) == <<t.cluster_bindings, t.role_bindings, t.cluster_roles, t.roles>>

\* C1: in one run each RBAC collection is listed once, and every user of the
\* run is resolved against that same snapshot.
C1_OneSnapshotPerRun ==
    /\ \A k \in RBACKinds : api_calls[k] <= 1
    /\ \A i, j \in 1..Len(trace) : Snapshot(trace[i]) = Snapshot(trace[j])

IsPrefix(a, b) == Len(a) <= Len(b) /\ \A i \in 1..Len(a) : a[i] = b[i]

RECURSIVE IsSubsequence(_, _)
IsSubsequence(a, b) ==
    IF a = <<>> THEN TRUE
    ELSE IF b = <<>> THEN FALSE
    ELSE IF Head(a) = Head(b) THEN IsSubsequence(Tail(a), Tail(b))
    ELSE IsSubsequence(a, Tail(b))

\* the namespaces, in fetch order, of the role bindings whose subjects bind
\* the user
BoundNamespaces(ud, username, rbs) ==
    LET BindsUser(b) == Binds(ud, username, b.subjects)
        bound == SelectSeq(rbs, BindsUser)
    IN  [n \in 1..Len(bound) |-> bound[n].metadata.namespace]

\* C5: a grant from a ClusterRoleBinding has namespace "" and is_cluster true;
\* a grant from a RoleBinding has that binding's namespace and is_cluster
\* false; no grant mixes the two.
C5_ClusterAndNamespaceGrantsSeparate ==
    \A i \in 1..Len(stdout) :
        LET accesses == stdout[i].accesses
            IsCluster(g) == g.is_cluster
            IsNamespaced(g) == ~g.is_cluster
            BindsUser(b) == Binds(users_data, stdout[i].username, b.subjects)
            namespaced == SelectSeq(accesses, IsNamespaced)
        IN  /\ \A n \in 1..Len(accesses) :
                   /\ accesses[n].is_cluster <=> accesses[n].namespace = ""
                   /\ accesses[n].is_cluster =>
                          \A m \in 1..n : accesses[m].is_cluster
            /\ Len(SelectSeq(accesses, IsCluster))
                   <= Len(SelectSeq(trace[i].cluster_bindings, BindsUser))
            /\ IsSubsequence(
                   [n \in 1..Len(namespaced) |-> namespaced[n].namespace],
                   BoundNamespaces(users_data, stdout[i].username,
                                   trace[i].role_bindings))

\* alice holds a cluster-wide grant and a grant in billing
C5_Witness ==
    \E i \in 1..Len(stdout) :
        /\ Len(stdout[i].accesses) = 2
        /\ stdout[i].accesses[1].is_cluster
        /\ stdout[i].accesses[1].namespace = ""
        /\ ~stdout[i].accesses[2].is_cluster
        /\ stdout[i].accesses[2].namespace = "billing"

PrintedNames == [i \in 1..Len(stdout) |-> stdout[i].username]

\* C6: a completed run has printed exactly one entry for each username of the
\* roster, an entry without grants for a user no binding names; what was
\* emitted is only appended to.
C6_OneEntryPerUser ==
    /\ [](pc = "done" =>
            /\ NoDuplicates(PrintedNames)
            /\ ElemsOf(PrintedNames) =
                   {input_file.internals[n].username :
                        n \in 1..Len(input_file.internals)}
            /\ \A i \in 1..Len(stdout) :
                   LET BindsUser(b) ==
                           Binds(users_data, stdout[i].username, b.subjects)
                   IN  (/\ SelectSeq(trace[i].cluster_bindings, BindsUser) = <<>>
                        /\ SelectSeq(trace[i].role_bindings, BindsUser) = <<>>)
                           => stdout[i].accesses = <<>>)
    /\ [][/\ IsPrefix(stdout, stdout')
          /\ IsPrefix(output_file, output_file')
          /\ IsPrefix(elasticsearch, elasticsearch')]_vars

\* a completed run over two users, one without any grant
C6_Witness ==
    /\ pc = "done"
    /\ Len(stdout) = 2
    /\ stdout[1].accesses = <<>>
    /\ stdout[2].accesses # <<>>
    /\ output_file = <<OldLine>> \o stdout

CrbListFailed(i) == "cluster_role_bindings" \in trace[i].list_failed

C9_IoErrorsDoNotAbort ==
    /\ [][/\ pc = "write_file" =>
                 pc' \in {"write_file", "send_to_elasticsearch"}
          /\ pc = "send_to_elasticsearch" =>
                 pc' \in {"send_to_elasticsearch",
                          "list_cluster_role_bindings", "done"}]_vars
    /\ [](\A f \in io_failed :
              /\ idx >= f[1]
              /\ f[2] = "es" => idx > f[1]
              /\ idx = f[1] => pc = "send_to_elasticsearch"
              /\ pc = "done" =>
                     \A j \in (f[1] + 1)..Len(users_data) :
                         /\ j <= Len(stdout)
                         /\ stdout[j].username = users_data[j].username)

\* the write and the send of the first user failed, the second user's entry
\* reached the file and the sink
C9_Witness ==
    /\ pc = "done"
    /\ io_failed = {<<1, "file">>, <<1, "es">>}
    /\ Len(stdout) = 2
    /\ output_file = <<OldLine, stdout[2]>>
    /\ Len(elasticsearch) = 1 /\ elasticsearch[1].username = stdout[2].username

\* C8: a failed RBAC list call empties the collection of its kind only; the
\* collections of the other kinds are the ones the cluster returns.  Stated
\* of the exporter after _get_all_bindings and after _get_roles.
C8_FailedListEmptiesOnlyItsKind ==
    /\ epc \in {"ns_get_roles", "cw_get_roles"} =>
           /\ exp_raised = "cluster_role_bindings" =>
                  exp_role_bindings = cluster.role_bindings
           /\ exp_raised = "role_bindings" =>
                  exp_cluster_bindings = cluster.cluster_role_bindings
    /\ epc \in {"ns_calculate", "cw_calculate"} =>
           /\ exp_raised = "cluster_roles" =>
                  exp_roles = ExpRolesDict(<<>>, cluster.roles, 1)
           /\ exp_raised = "roles" =>
                  exp_cluster_roles =
                      ExpClusterRolesDict(<<>>, cluster.cluster_roles, 1)

\* C10: with a roster input that cannot be read or parsed, neither the
\* monitor nor the exporter gets past its start: the process exits.
C10_UnloadableRosterIsFatal ==
    LoadUsers(input_file).err =>
        /\ pc \in {"off", "new", "exit1"}
        /\ epc \in {"off", "new", "exit1"}

RosterNames(ud) == {ud[n].username : n \in 1..Len(ud)}

Aggregated == call.fn = "snapshot" /\ ret.done /\ ret.by = "exporter"

\* the key of a line in the dict it was made from
LineKey(line) ==
    MetricKey(IF line.namespace = "" THEN ""
              ELSE NamespacePrefix(line.namespace),
              line.verb, line.resource)

\* the users recorded under the key of a line
LineUsers(line) ==
    IF line.metric = "k8s_namespace_sensitive_access_users_count"
    THEN DOMAIN ret.namespace_metrics[LineKey(line)]
    ELSE DOMAIN ret.cluster_metrics[LineKey(line)]

\* C11: every metric key has one line, whose value is the number of distinct
\* roster users recorded under the key, however many bindings recorded each
\* of them, and is at most the size of the roster.
C11_CountIsDistinctUsers ==
    Aggregated =>
        /\ \A line \in ret.lines :
               /\ line.user_count = Cardinality(LineUsers(line))
               /\ LineUsers(line) \subseteq RosterNames(call.users_data)
               /\ line.user_count <= Len(call.users_data)
        /\ \A k, l \in ret.lines :
               (k.metric = l.metric /\ LineKey(k) = LineKey(l)) => k = l
        /\ {LineKey(l) : l \in {k \in ret.lines : k.namespace # ""}}
               = DOMAIN ret.namespace_metrics
        /\ {LineKey(l) : l \in {k \in ret.lines : k.namespace = ""}}
               = DOMAIN ret.cluster_metrics

\* bob matches two bindings that both grant get on secrets in kube-system and
\* is counted once
C11_Witness ==
    /\ Aggregated
    /\ "kube-system_get_secrets" \in DOMAIN ret.namespace_metrics
    /\ ret.namespace_metrics["kube-system_get_secrets"] =
           [u \in {"bob"} |-> 2]
    /\ [metric |-> "k8s_namespace_sensitive_access_users_count",
        namespace |-> "kube-system", verb |-> "get", resource |-> "secrets",
        user_count |-> 1] \in ret.lines

\* a role gives a verb on a resource: one of its rules names both
Gives(role, verb, resource) ==
    \E n \in 1..Len(RulesOf(role)) :
        /\ resource \in ElemsOf(OrEmpty(RulesOf(role)[n].resources))
        /\ verb \in ElemsOf(OrEmpty(RulesOf(role)[n].verbs))

VerbsOf(role) ==
    UNION {ElemsOf(OrEmpty(RulesOf(role)[n].verbs)) :
               n \in 1..Len(RulesOf(role))}

ClusterRolesNamed(items, name) ==
    {items[i] : i \in {k \in 1..Len(items) : items[k].metadata.name = name}}

RolesNamed(items, namespace, name) ==
    {items[i] : i \in {k \in 1..Len(items) :
                           /\ items[k].metadata.namespace = namespace
                           /\ items[k].metadata.name = name}}

\* a user is recorded under a key of a metrics dict
Counted(metrics, key, username) ==
    key \in DOMAIN metrics /\ username \in DOMAIN metrics[key]

\* a cluster role binding of the snapshot binds the user to a ClusterRole of
\* the snapshot that gives the verb on the resource
ClusterWideGiven(username, verb, resource) ==
    \E i \in 1..Len(call.cluster_bindings) :
        /\ Binds(call.users_data, username, call.cluster_bindings[i].subjects)
        /\ \E role \in ClusterRolesNamed(
                           call.cluster_roles,
                           call.cluster_bindings[i].role_ref.name) :
               Gives(role, verb, resource)

SnapshotVerbs ==
    UNION {VerbsOf(call.cluster_roles[i]) : i \in 1..Len(call.cluster_roles)}
    \cup UNION {VerbsOf(call.roles[i]) : i \in 1..Len(call.roles)}

ClusterBindingsGiving(username, verb, resource) ==
    Cardinality({i \in 1..Len(call.cluster_bindings) :
        /\ Binds(call.users_data, username, call.cluster_bindings[i].subjects)
        /\ \E role \in ClusterRolesNamed(
                           call.cluster_roles,
                           call.cluster_bindings[i].role_ref.name) :
               Gives(role, verb, resource)})

\* how many role bindings of a namespace bind the user to a Role of that
\* namespace giving the verb on the resource
RoleBindingsGiving(username, namespace, verb, resource) ==
    Cardinality({j \in 1..Len(call.role_bindings) :
        /\ call.role_bindings[j].metadata.namespace = namespace
        /\ Binds(call.users_data, username, call.role_bindings[j].subjects)
        /\ \E role \in RolesNamed(call.roles, namespace,
                                  call.role_bindings[j].role_ref.name) :
               Gives(role, verb, resource)})

\* C13: a RoleBinding adds a user only to the keys (its namespace, verb,
\* resource) of a sensitive namespace and a sensitive resource: every key of
\* the namespace metrics is of a sensitive namespace and resource, a user is
\* recorded under it once for each ClusterRoleBinding and each RoleBinding of
\* that namespace giving him the verb on the resource, and under a
\* cluster-wide key once for each such ClusterRoleBinding only.
C13_RoleBindingCountsInItsNamespaceOnly ==
    Aggregated =>
        /\ \A key \in DOMAIN ret.namespace_metrics :
               \E n \in SensitiveNamespaces, v \in SnapshotVerbs,
                  r \in SensitiveResources :
                   /\ key = MetricKey(NamespacePrefix(n), v, r)
                   /\ \A u \in DOMAIN ret.namespace_metrics[key] :
                          ret.namespace_metrics[key][u] =
                              ClusterBindingsGiving(u, v, r)
                                  + RoleBindingsGiving(u, n, v, r)
        /\ \A key \in DOMAIN ret.cluster_metrics :
               \E v \in SnapshotVerbs, r \in SensitiveResources :
                   /\ key = MetricKey("", v, r)
                   /\ \A u \in DOMAIN ret.cluster_metrics[key] :
                          ret.cluster_metrics[key][u] =
                              ClusterBindingsGiving(u, v, r)

\* bob is bound to billing/reader (get, update on secrets) and, through dev,
\* to default/reader (get on pods, list on configmaps): only get on pods in
\* default is counted
C13_Witness ==
    /\ Aggregated
    /\ call.cluster_bindings = <<>>
    /\ Len(call.role_bindings) = 2
    /\ call.role_bindings[1].metadata.namespace = "billing"
    /\ call.role_bindings[2].metadata.namespace = "default"
    /\ ret.namespace_metrics = [k \in {"default_get_pods"} |->
                                   [u \in {"bob"} |-> 1]]
    /\ ret.cluster_metrics = <<>>

(***************************************************************************)
(* The sidecar.                                                            *)
(***************************************************************************)
\* the line numbers whose document the sink has acknowledged
Delivered == {sent[i] : i \in 1..Len(sent)}

\* C14: a marker is written for a line only after the send of that line, in
\* the same execution of process_logs, was acknowledged; a line whose send
\* failed is not marked.
C14_MarkedAfterAcknowledged ==
    \A m \in marks : m.send = "acknowledged"

C19_MarkedLineSkipped ==
    spc = "entry" =>
        \A i \in 1..Len(new_entries) :
            Marker(new_entries[i].line_num) \notin processed_lines

(***************************************************************************)
(* The resolver on a snapshot.                                             *)
(***************************************************************************)
Resolved == call.fn = "snapshot" /\ ret.done /\ ret.by = "main"

\* a cluster role binding binds the user to a ClusterRole that is not in the
\* snapshot
MissingClusterRole(username, binding) ==
    /\ Binds(call.users_data, username, binding.subjects)
    /\ ClusterRolesNamed(call.cluster_roles, binding.role_ref.name) = {}

\* a role binding binds the user to a role whose key is not in the roles map
MissingRole(username, binding) ==
    /\ Binds(call.users_data, username, binding.subjects)
    /\ RolesNamed(call.roles, binding.metadata.namespace,
                  binding.role_ref.name) = {}

\* C16: a matching binding that names a role missing from the snapshot gives
\* no grant and no error, and the grants of the user's other bindings are
\* emitted: the resolution is the one of the snapshot without these bindings.
C16_MissingRoleSkipsOnlyItsBinding ==
    Resolved =>
        \A n \in 1..Len(call.users_data) :
            LET username == call.users_data[n].username
            IN  ret.accesses[n] =
                    MainResolve(
                        call.users_data, username,
                        SelectSeq(call.cluster_bindings,
                                  LAMBDA b : ~MissingClusterRole(username, b)),
                        SelectSeq(call.role_bindings,
                                  LAMBDA b : ~MissingRole(username, b)),
                        MainClusterRolesDict(<<>>, call.cluster_roles, 1),
                        MainRolesDict(<<>>, call.roles, 1))

\* bob is bound to the missing ClusterRole, then to reader; alice in default
\* to viewer, of which there is no Role, then through dev to
\* kube-system/reader: each gets the grant of the second binding alone
C16_Witness ==
    /\ Resolved
    /\ Len(call.users_data) = 2
    /\ call.users_data[1].username = "alice"
    /\ call.users_data[2].username = "bob"
    /\ Len(call.cluster_bindings) = 2
    /\ MissingClusterRole("bob", call.cluster_bindings[1])
    /\ call.cluster_bindings[2].role_ref.name = "reader"
    /\ Len(call.role_bindings) = 2
    /\ MissingRole("alice", call.role_bindings[1])
    /\ call.role_bindings[2].metadata.namespace = "kube-system"
    /\ ~ret.accesses[1].err /\ ~ret.accesses[2].err
    /\ Len(ret.accesses[1].val) >= 1
    /\ ret.accesses[1].val[Len(ret.accesses[1].val)].namespace = "kube-system"
    /\ Len(ret.accesses[2].val) >= 1
    /\ ret.accesses[2].val[1].is_cluster

\* the grants the role bindings give a user: one for each role binding that
\* binds him and whose key namespace/name is the key of a Role with a
\* non-empty permission set, whatever the kind of the reference
RECURSIVE RoleBindingGrants(_, _)
RoleBindingGrants(username, j) ==
    IF j > Len(call.role_bindings) THEN <<>>
    ELSE LET binding == call.role_bindings[j]
             namespace == binding.metadata.namespace
             named == RolesNamed(call.roles, namespace, binding.role_ref.name)
             given == {MainExtractPermissionsFromRole(role).val :
                           role \in named} \ {<<>>}
         IN  (IF Binds(call.users_data, username, binding.subjects)
                 /\ given # {}
              THEN <<RoleGrant(namespace, CHOOSE p \in given : TRUE)>>
              ELSE <<>>)
             \o RoleBindingGrants(username, j + 1)

\* C17: a matching RoleBinding in namespace ns naming r gives a grant exactly
\* when ns/r is the key of a Role with a non-empty permission set, whatever
\* roleRef.kind is, and the grant has the permissions of that Role: a
\* ClusterRole named r or a Role r of another namespace is never used.
C17_RoleLookupByNamespaceAndName ==
    Resolved =>
        \A n \in 1..Len(call.users_data) :
            ~ret.accesses[n].err =>
                SelectSeq(ret.accesses[n].val, LAMBDA a : ~a.is_cluster)
                    = RoleBindingGrants(call.users_data[n].username, 1)

\* alice is bound through dev, in kube-system, by a reference of kind
\* ClusterRole to reader, and in default to viewer, which is a ClusterRole
\* only: she gets the permissions of the Role kube-system/reader and nothing
\* for viewer
C17_Witness ==
    /\ Resolved
    /\ call.cluster_bindings = <<>>
    /\ Len(call.role_bindings) = 2
    /\ call.role_bindings[1].role_ref =
           [kind |-> "ClusterRole", name |-> "reader"]
    /\ call.role_bindings[2].role_ref =
           [kind |-> "ClusterRole", name |-> "viewer"]
    /\ \E n \in 1..Len(call.users_data) :
           /\ call.users_data[n].username = "alice"
           /\ ret.accesses[n] =
                  Returned(<<RoleGrant("kube-system",
                                       <<[resource |-> "secrets",
                                          verbs |-> <<"get">>]>>)>>)

\* the accesses the resolver gives a roster user on the snapshot; none when
\* the resolution raises
ResolvedAccesses(username) ==
    LET res == MainResolve(call.users_data, username, call.cluster_bindings,
                           call.role_bindings,
                           MainClusterRolesDict(<<>>, call.cluster_roles, 1),
                           MainRolesDict(<<>>, call.roles, 1))
    IN  IF res.err THEN <<>> ELSE res.val

\* a grant gives the verb on the resource
GrantGives(access, verb, resource) ==
    \E k \in 1..Len(access.resources) :
        /\ access.resources[k].resource = resource
        /\ InList(verb, access.resources[k].verbs)

HasClusterGrant(username, verb, resource) ==
    \E i \in 1..Len(ResolvedAccesses(username)) :
        /\ ResolvedAccesses(username)[i].is_cluster
        /\ GrantGives(ResolvedAccesses(username)[i], verb, resource)

HasNamespaceGrant(username, namespace, verb, resource) ==
    \E i \in 1..Len(ResolvedAccesses(username)) :
        /\ ResolvedAccesses(username)[i].namespace = namespace
        /\ GrantGives(ResolvedAccesses(username)[i], verb, resource)

\* C18: on one snapshot and roster, the users counted under the cluster-wide
\* key (v, r) of a sensitive resource r are the roster users with a resolved
\* cluster-wide grant giving v on r, and the users counted under (n, v, r) of
\* a sensitive namespace n are those with such a grant or a grant of
\* namespace n giving v on r.
C18_AggregationAgreesWithResolver ==
    Aggregated =>
        \A u \in RosterNames(call.users_data), v \in SnapshotVerbs,
           r \in SensitiveResources :
            /\ Counted(ret.cluster_metrics, MetricKey("", v, r), u)
                   <=> HasClusterGrant(u, v, r)
            /\ \A n \in SensitiveNamespaces :
                   Counted(ret.namespace_metrics,
                           MetricKey(NamespacePrefix(n), v, r), u)
                       <=> \/ HasClusterGrant(u, v, r)
                           \/ HasNamespaceGrant(u, n, v, r)

====
